---- MODULE Spec2Model ----
(***************************************************************************)
(* Model of ayab/ayab.py: the plugin registry handling of GuiMain          *)
(* (plugins_init, set_enabled_plugin), the threaded knitting execution     *)
(* (start_knitting_process, cancel_knitting_process, resetUI,              *)
(* GenericThread) with the queued signals between worker and foreground,   *)
(* and the pattern view: loading and transforming the image, needle range, *)
(* alignment, progress and zoom, and the scene refresh_scene builds.       *)
(***************************************************************************)
EXTENDS Integers, Sequences, FiniteSets, TLC

(* ---------------------------- bounds ----------------------------------- *)
\* number of GenericThread objects created in one behaviour
MaxJobs == 2
\* number of queued signal deliveries waiting for the foreground event loop
MaxQueue == 1
\* number of plugins_init(is_reloading=True) calls in one behaviour
MaxReload == 1

(* ---------------------------- plugins ---------------------------------- *)
\* plugin names that can be present in the plugins directory
Names == {"AYAB", "Dummy"}
\* order in which getAllPlugins lists them
NameOrder == <<"AYAB", "Dummy">>
\* what the plugins directory holds for a name
DirEntries == {"absent", "plain", "disabled"}
\* the value of enabled_plugin when no plugin info object is referenced
NoPlugin == <<0, "None">>

VARIABLES
    plugin_dir,      \* contents of the plugins directory: name -> entry
    pm_gen,          \* which PluginManager instance self.pm is (1 = first)
    activated,       \* plugin infos whose plugin object is activated
    dropdown,        \* items of ui.module_dropdown, in insertion order
    current_text,    \* ui.module_dropdown.currentText()
    enabled_plugin,  \* self.enabled_plugin: a plugin info or NoPlugin
    setup_plugins,   \* plugin infos with setup_ui called and no cleanup_ui since
    hooks,           \* hook calls made by the last set_enabled_plugin call
    ui,              \* enabled flags of the widgets the handlers switch
    threads,         \* every GenericThread created, in creation order
    fg_pc,           \* what the foreground thread is doing
    fg_last,         \* the last start or cancel handler run and what it raised
    queue,           \* queued signal deliveries to the foreground
    cancel_req,      \* plugin infos whose plugin object holds a cancel request
    err_log,         \* threads whose FysomError was logged by run
    pil_image,       \* self.pil_image: the pattern, or NoImage
    start_needle,    \* self.start_needle
    stop_needle,     \* self.stop_needle
    imageAlignment,  \* self.imageAlignment
    var_progress,    \* self.var_progress
    zoomlevel,       \* self.zoomlevel, in units of 1/ZoomUnit
    scene,           \* what image_pattern_view shows: the last scene built
    notification_label,   \* the row/total pair ui.notification_label shows
    widget_knitcontrol,   \* enabled flag of ui.widget_knitcontrol
    reported_dimensions,  \* plugin info -> size last passed to slotSetImageDimensions
    view_last        \* the last pattern view handler run and how it went

vars == <<plugin_dir, pm_gen, activated, dropdown, current_text, enabled_plugin,
          setup_plugins,
          hooks, ui, threads, fg_pc, fg_last, queue, cancel_req, err_log,
          pil_image, start_needle, stop_needle, imageAlignment, var_progress,
          zoomlevel, scene, notification_label, widget_knitcontrol,
          reported_dimensions, view_last>>

regVars == <<plugin_dir, pm_gen, activated, dropdown, current_text, enabled_plugin,
             setup_plugins, hooks>>
jobVars == <<threads, fg_pc, queue, cancel_req, err_log>>
viewVars == <<pil_image, start_needle, stop_needle, imageAlignment, var_progress,
              zoomlevel, scene, notification_label, widget_knitcontrol,
              reported_dimensions, view_last>>

(* ------------------------ plugin registry ------------------------------ *)
\* pm.getPluginByName: the plugin info of the current manager, or None
getPluginByName(gen, dir, name) ==
    IF name \in Names /\ dir[name] # "absent" THEN <<gen, name>> ELSE NoPlugin

\* pluginInfo.details.has_option("Core", "Disabled")
has_option_Disabled(dir, name) == dir[name] = "disabled"

\* the names plugins_init activates, in listing order
RECURSIVE ActivatedNames(_, _)
ActivatedNames(dir, i) ==
    IF i > Len(NameOrder) THEN <<>>
    ELSE LET n == NameOrder[i]
         IN  IF dir[n] # "absent" /\ ~has_option_Disabled(dir, n)
             THEN <<n>> \o ActivatedNames(dir, i + 1)
             ELSE ActivatedNames(dir, i + 1)

SeqRange(s) == {s[i] : i \in 1..Len(s)}

\* set_enabled_plugin with the first try block lost: an exception raised by
\* cleanup_ui ends the call before setup_ui
HookCalls_no_try(old, new, cleanup_ok) ==
    (IF old # NoPlugin
        THEN <<[hook |-> "cleanup_ui", plugin |-> old, raised |-> ~cleanup_ok]>>
        ELSE <<>>)
    \o
    (IF new # NoPlugin /\ (old = NoPlugin \/ cleanup_ok)
        THEN <<[hook |-> "setup_ui", plugin |-> new]>>
        ELSE <<>>)

\* set_enabled_plugin that forgets the outgoing plugin: no cleanup_ui call
HookCalls_no_cleanup(old, new, cleanup_ok) ==
    IF new # NoPlugin THEN <<[hook |-> "setup_ui", plugin |-> new]>> ELSE <<>>

\* the hook calls of set_enabled_plugin, in call order: cleanup_ui of the
\* plugin enabled so far (if any), then setup_ui of the plugin found (if any)
HookCalls(old, new, cleanup_ok) ==
    (IF old # NoPlugin
        THEN <<[hook |-> "cleanup_ui", plugin |-> old, raised |-> ~cleanup_ok]>>
        ELSE <<>>)
    \o
    (IF new # NoPlugin
        THEN <<[hook |-> "setup_ui", plugin |-> new]>>
        ELSE <<>>)

\* the plugins in the enabled state after a sequence of hook calls: setup_ui
\* puts a plugin into it, cleanup_ui takes it out
RECURSIVE AfterHooks(_, _)
AfterHooks(S, calls) ==
    IF calls = <<>> THEN S
    ELSE AfterHooks(IF Head(calls).hook = "setup_ui"
                    THEN S \cup {Head(calls).plugin}
                    ELSE S \ {Head(calls).plugin},
                    Tail(calls))

\* set_enabled_plugin(plugin_name) run against manager gen; an empty
\* plugin_name takes the current text of the dropdown.  cleanup_ok says
\* whether cleanup_ui returns or raises.  Whether setup_ui returns or raises
\* only selects the line that is logged, so it is not an input here.
set_enabled_plugin(gen, dir, plugin_name, cleanup_ok) ==
    LET name == IF plugin_name = "" THEN current_text ELSE plugin_name
        plugin_o == getPluginByName(gen, dir, name)
    IN  /\ enabled_plugin' = plugin_o
        /\ hooks' = HookCalls(enabled_plugin, plugin_o, cleanup_ok)
        /\ setup_plugins' = AfterHooks(setup_plugins, hooks')

(* ------------------------------ images --------------------------------- *)
\* An image is its mode, its size <<width, height>> and its rows of pixels.
\* A pixel is the tuple of its bands: <<c>> in mode RGB, <<c, a>> in mode
\* RGBA, one colour value c standing for the three colour bands.
BandMax == 255

\* self.pil_image = None
NoImage == [mode |-> "None", size |-> <<0, 0>>, px |-> <<>>]

\* image.getpixel((x, y)), x and y counted from 0
getpixel(image, x, y) == image.px[y + 1][x + 1]

\* the pixel positions of an image of the given size
Positions(width, height) == (0..(width - 1)) \X (0..(height - 1))

\* an image of the given mode and size whose pixel at (x, y) is f[x, y]
ImageOf(mode, width, height, f) ==
    [mode |-> mode, size |-> <<width, height>>,
     px |-> [y \in 1..height |-> [x \in 1..width |-> f[x - 1, y - 1]]]]

\* one pixel converted to a mode: RGB to RGBA adds an opaque alpha band,
\* RGBA to RGB drops the alpha band
convert_pixel(p, mode) ==
    IF mode = "RGBA"
    THEN (IF Len(p) = 1 THEN <<p[1], BandMax>> ELSE p)
    ELSE <<p[1]>>

\* image.convert(mode): a copy when the image has the mode already
convert(image, mode) ==
    IF image.mode = mode THEN image
    ELSE ImageOf(mode, image.size[1], image.size[2],
                 [q \in Positions(image.size[1], image.size[2]) |->
                     convert_pixel(getpixel(image, q[1], q[2]), mode)])

\* the files a user can pick: what Image.open makes of them ("unreadable":
\* Image.open raises)
ImageFiles ==
    [wide |-> ImageOf("RGB", 40, 1, [q \in Positions(40, 1) |-> <<0>>]),
     dot |-> ImageOf("RGBA", 1, 1, [q \in Positions(1, 1) |-> <<0, 0>>]),
     pair |-> ImageOf("RGBA", 2, 1,
                      [q \in Positions(2, 1) |->
                          IF q[1] = 0 THEN <<0, BandMax>> ELSE <<BandMax, 0>>]),
     notes |-> NoImage]

(* ---------------------------- transforms ------------------------------- *)
\* image.rotate(angle, expand=1) for the two angles the handlers pass:
\* 90 turns the image counter-clockwise, -90 clockwise
__rotate_image(image, args) ==
    LET w == image.size[1]
        h == image.size[2]
    IN  IF args = <<>> THEN image
        ELSE IF args[1] = 90
        THEN ImageOf(image.mode, h, w,
                     [q \in Positions(h, w) |-> getpixel(image, w - 1 - q[2], q[1])])
        ELSE ImageOf(image.mode, h, w,
                     [q \in Positions(h, w) |-> getpixel(image, q[2], h - 1 - q[1])])

\* __invert_image: an RGBA image is merged to RGB from its colour bands
\* first; ImageOps.invert then inverts each band
__invert_image(image, args) ==
    ImageOf("RGB", image.size[1], image.size[2],
            [q \in Positions(image.size[1], image.size[2]) |->
                <<BandMax - getpixel(image, q[1], q[2])[1]>>])

\* ImageOps.mirror: left and right exchanged
__mirror_image(image, args) ==
    ImageOf(image.mode, image.size[1], image.size[2],
            [q \in Positions(image.size[1], image.size[2]) |->
                getpixel(image, image.size[1] - 1 - q[1], q[2])])

\* ImageOps.flip: top and bottom exchanged
__flip_image(image, args) ==
    ImageOf(image.mode, image.size[1], image.size[2],
            [q \in Positions(image.size[1], image.size[2]) |->
                getpixel(image, q[1], image.size[2] - 1 - q[2])])

\* canvas.paste(image, box): the pixels of image, converted to the mode of
\* canvas, replace those of canvas from the corner box on
paste(canvas, image, box) ==
    ImageOf(canvas.mode, canvas.size[1], canvas.size[2],
            [q \in Positions(canvas.size[1], canvas.size[2]) |->
                IF /\ box[1] <= q[1] /\ q[1] < box[1] + image.size[1]
                   /\ box[2] <= q[2] /\ q[2] < box[2] + image.size[2]
                THEN convert_pixel(getpixel(image, q[1] - box[1], q[2] - box[2]),
                                   canvas.mode)
                ELSE getpixel(canvas, q[1], q[2])])

RECURSIVE paste_each(_, _, _)
paste_each(canvas, image, boxes) ==
    IF boxes = <<>> THEN canvas
    ELSE paste_each(paste(canvas, image, Head(boxes)), image, Tail(boxes))

\* __repeat_image: args = (pVertical, pHorizontal); a new black RGB image
\* of new_w x new_h, the image pasted at every (w, h) of
\* range(0, new_h, old_h) x range(0, new_w, old_w)
__repeat_image(image, args) ==
    LET old_h == image.size[2]
        old_w == image.size[1]
        new_h == old_h * args[1]
        new_w == old_w * args[2]
        new_im == ImageOf("RGB", new_w, new_h, [q \in Positions(new_w, new_h) |-> <<0>>])
        boxes == [k \in 1..(args[1] * args[2]) |->
                     <<((k - 1) % args[2]) * old_w, ((k - 1) \div args[2]) * old_h>>]
    IN  paste_each(new_im, image, boxes)

\* the keys of transform_dict
TransformKeys == {"invert", "repeat", "mirror", "flip", "rotate"}

\* transform_dict[key](image, args)
transform(key, image, args) ==
    CASE key = "invert" -> __invert_image(image, args)
      [] key = "repeat" -> __repeat_image(image, args)
      [] key = "mirror" -> __mirror_image(image, args)
      [] key = "flip" -> __flip_image(image, args)
      [] key = "rotate" -> __rotate_image(image, args)

\* a transform step that keeps what the transform made although it raised
try_transform_keeps_result(image, key, args, raises) ==
    IF key \notin TransformKeys THEN image ELSE transform(key, image, args)

\* lines 422-430 of apply_image_transform: the image after the try block.
\* With a key that is not in transform_dict, transform is None and calling
\* it raises; raises says whether the transform function itself raises.
\* Either way the except clause leaves image as it was.
try_transform(image, key, args, raises) ==
    IF key \notin TransformKeys \/ raises THEN image ELSE transform(key, image, args)

(* ------------------------------ render --------------------------------- *)
\* machine_width of refresh_scene
machine_width == 200
\* zoomlevel and the wheel step are counted in 1/ZoomUnit, so that
\* angleDelta().y() / 120 is exact
ZoomUnit == 120

\* no scene has been set on image_pattern_view
NoScene ==
    [pattern |-> <<>>, dimensions_label |-> <<0, 0>>, pattern_pos2 |-> 0,
     machine |-> <<>>, limits |-> <<>>, progress_y |-> 0, scale |-> 0]

\* the centre placement with (start_needle + stop_needle) / 2 rounded down
\* to an integer
pattern_pos2_floor_division(alignment, start, stop, width) ==
    CASE alignment = "left" -> 2 * (start - 100)
      [] alignment = "center" -> -width + 2 * ((start + stop) \div 2) - 2 * 100
      [] alignment = "right" -> 2 * (stop - 100 - width)
      [] OTHER -> 0

\* twice the x position of the pattern item (positions are multiples of one
\* half, / being true division): pattern.setPos of the branch taken; with
\* another alignment the new item keeps the position it is created with, 0
pattern_pos2(alignment, start, stop, width) ==
    CASE alignment = "left" -> 2 * (start - 100)
      [] alignment = "center" -> -width + (start + stop) - 2 * 100
      [] alignment = "right" -> 2 * (stop - 100 - width)
      [] OTHER -> 0

\* refresh_scene: the scene built from the fields, every item created anew
refresh_scene(image, start, stop, alignment, progress, zoom) ==
    LET width == image.size[1]
        height == image.size[2]
    IN  [pattern |-> convert(image, "RGBA").px,
         dimensions_label |-> <<width, height>>,
         pattern_pos2 |-> pattern_pos2(alignment, start, stop, width),
         machine |-> <<[colour |-> "orange", x |-> -(machine_width \div 2),
                        width |-> machine_width \div 2],
                       [colour |-> "green", x |-> 0, width |-> machine_width \div 2]>>,
         limits |-> <<start - 101, stop - 100>>,
         progress_y |-> height - progress,
         scale |-> zoom]

\* the zoom step of wheelEvent without the lower clamp
wheel_zoom_no_lower_clamp(level, angleDelta) ==
    LET z == level + angleDelta
    IN  IF z >= 5 * ZoomUnit THEN 5 * ZoomUnit ELSE z

\* lines 164-171 of wheelEvent: the new zoomlevel
wheel_zoom(level, angleDelta) ==
    LET z == level + angleDelta
    IN  IF z <= 1 * ZoomUnit THEN 1 * ZoomUnit
        ELSE IF z >= 5 * ZoomUnit THEN 5 * ZoomUnit
        ELSE z

\* plugin_object.slotSetImageDimensions(width, height) of plugin: what the
\* plugins have been told so far
slotSetImageDimensions(told, plugin, size) ==
    [p \in DOMAIN told \cup {plugin} |-> IF p = plugin THEN size ELSE told[p]]

\* how a pattern view handler went: the exception that left it, whether
\* refresh_scene ran to its end, whether a transform error was logged
Went(op, exc, rendered, logged) ==
    [op |-> op, exc |-> exc, rendered |-> rendered, logged |-> logged]

\* the widget flags as Ui_MainWindow leaves them before any handler ran
InitUi ==
    [menuTools |-> TRUE, widget_imgload |-> TRUE, menuImage_Actions |-> FALSE,
     widget_optionsdock |-> FALSE, knit_button |-> FALSE, cancel_button |-> FALSE]

\* plugins_init() as called by __init__, for a given plugins directory
Init ==
    /\ plugin_dir \in [Names -> DirEntries]
    /\ pm_gen = 1
    /\ activated = {<<1, n>> : n \in SeqRange(ActivatedNames(plugin_dir, 1))}
    /\ dropdown = ActivatedNames(plugin_dir, 1)
    /\ current_text = IF Len(dropdown) > 0 THEN dropdown[1] ELSE ""
    /\ enabled_plugin = getPluginByName(1, plugin_dir, "AYAB")
    /\ hooks = HookCalls(NoPlugin, enabled_plugin, TRUE)
    /\ setup_plugins = AfterHooks({}, hooks)
    /\ ui = InitUi
    /\ threads = <<>>
    /\ fg_pc = "loop"
    /\ fg_last = [op |-> "none", exc |-> "none"]
    /\ queue = <<>>
    /\ cancel_req = {}
    /\ err_log = {}
    /\ pil_image = NoImage
    /\ start_needle = 80
    /\ stop_needle = 119
    /\ imageAlignment = "center"
    /\ var_progress = 0
    /\ zoomlevel = 3 * ZoomUnit
    /\ scene = NoScene
    /\ notification_label = <<>>
    /\ widget_knitcontrol = TRUE
    /\ reported_dimensions = <<>>
    /\ view_last = Went("none", "none", FALSE, FALSE)

(* --------------------- foreground: plugin registry --------------------- *)
\* module_dropdown.activated[str] -> set_enabled_plugin(text), or a call of
\* set_enabled_plugin() with the default argument (plugin_name = "")
SetEnabledPlugin ==
    /\ fg_pc = "loop"
    /\ \E plugin_name \in SeqRange(dropdown) \cup {""}, cleanup_ok \in BOOLEAN :
          /\ set_enabled_plugin(pm_gen, plugin_dir, plugin_name, cleanup_ok)
          /\ current_text' = IF plugin_name = "" THEN current_text ELSE plugin_name
    /\ UNCHANGED <<plugin_dir, pm_gen, activated, dropdown, ui, fg_last>>
    /\ UNCHANGED jobVars
    /\ UNCHANGED viewVars

\* plugins_init(is_reloading=True): every plugin of the old manager is
\* deactivated, a new manager collects the plugins directory as it is now
ReloadPlugins ==
    /\ fg_pc = "loop"
    /\ pm_gen <= MaxReload
    /\ pm_gen' = pm_gen + 1
    /\ plugin_dir' \in [Names -> DirEntries]
    /\ activated' = {<<pm_gen + 1, n>> : n \in SeqRange(ActivatedNames(plugin_dir', 1))}
    /\ dropdown' = dropdown \o ActivatedNames(plugin_dir', 1)
    /\ current_text' = IF Len(dropdown) > 0 THEN current_text
                       ELSE IF Len(dropdown') > 0 THEN dropdown'[1] ELSE ""
    /\ \E cleanup_ok \in BOOLEAN :
          set_enabled_plugin(pm_gen + 1, plugin_dir', "AYAB", cleanup_ok)
    /\ UNCHANGED <<ui, fg_last>>
    /\ UNCHANGED jobVars
    /\ UNCHANGED viewVars

\* the names plugins_init has activated and listed when activatePluginByName
\* raises for the name failing: the ones listed before it
RECURSIVE ActivatedBefore(_, _)
ActivatedBefore(names, failing) ==
    IF names = <<>> \/ Head(names) = failing THEN <<>>
    ELSE <<Head(names)>> \o ActivatedBefore(Tail(names), failing)

\* plugins_init(is_reloading=True) in which activatePluginByName raises for
\* the plugin failing: the call is not inside a try, so the exception leaves
\* the loop and plugins_init at line 100, before the plugin is listed, before
\* the plugins after it are looked at and before set_enabled_plugin("AYAB").
\* (Raised inside __init__ the same exception ends the construction of
\* GuiMain, so no initial state stands for it.)
ReloadPluginsActivationRaises(failing) ==
    /\ fg_pc = "loop"
    /\ pm_gen <= MaxReload
    /\ pm_gen' = pm_gen + 1
    /\ plugin_dir' \in [Names -> DirEntries]
    /\ failing \in SeqRange(ActivatedNames(plugin_dir', 1))
    /\ LET done == ActivatedBefore(ActivatedNames(plugin_dir', 1), failing)
       IN  /\ activated' = {<<pm_gen + 1, n>> : n \in SeqRange(done)}
           /\ dropdown' = dropdown \o done
    /\ current_text' = IF Len(dropdown) > 0 THEN current_text
                       ELSE IF Len(dropdown') > 0 THEN dropdown'[1] ELSE ""
    /\ UNCHANGED <<enabled_plugin, setup_plugins, hooks, ui, fg_last>>
    /\ UNCHANGED jobVars
    /\ UNCHANGED viewVars

(* ------------------------- GenericThread ------------------------------- *)
\* what the function handed to a GenericThread (the plugin's knit) can do
KnitOutcomes == {"return", "FysomError", "Exception"}

\* a thread whose run has ended, by return or by an escaping exception
Finished == {"completed", "cancelled", "failed", "crashed"}

\* the widget flags start_knitting_process sets
KnittingUi ==
    [menuTools |-> FALSE, widget_imgload |-> FALSE, menuImage_Actions |-> FALSE,
     widget_optionsdock |-> FALSE, knit_button |-> FALSE, cancel_button |-> TRUE]

\* the widget flags resetUI sets
ResetUi ==
    [menuTools |-> TRUE, widget_imgload |-> TRUE, menuImage_Actions |-> TRUE,
     widget_optionsdock |-> TRUE, knit_button |-> FALSE, cancel_button |-> FALSE]

\* the thread self.gt refers to: the one created last (0: no thread yet)
gt == Len(threads)

\* GenericThread.__del__, run when self.gt is rebound: wait() blocks the
\* caller while the old thread has been started and has not ended.  A
\* thread inside run is kept alive by its own frame, so rebinding self.gt
\* does not finalize it.
DelBlocks(old) == old.state = "started"

\* run with a bare except: every exception of self.function is caught and
\* logged
run_catch_all(outcome, cancel_seen) ==
    IF outcome = "return"
    THEN [state |-> IF cancel_seen THEN "cancelled" ELSE "completed", logged |-> FALSE]
    ELSE [state |-> "failed", logged |-> TRUE]

\* GenericThread.run for one outcome of self.function: how the thread ends
\* and whether the error is logged
run(outcome, cancel_seen) ==
    IF outcome = "return"
    THEN [state |-> IF cancel_seen THEN "cancelled" ELSE "completed", logged |-> FALSE]
    ELSE IF outcome = "FysomError"
    THEN [state |-> "failed", logged |-> TRUE]
    ELSE [state |-> "crashed", logged |-> FALSE]

(* ----------------------- foreground: knitting -------------------------- *)
\* knit_button.clicked -> start_knitting_process()
StartKnittingProcess ==
    /\ fg_pc = "loop"
    /\ Len(threads) < MaxJobs
    /\ ui' = KnittingUi
    /\ IF enabled_plugin = NoPlugin
       THEN /\ fg_last' = [op |-> "start", exc |-> "AttributeError"]
            /\ UNCHANGED <<threads, fg_pc>>
       ELSE LET blocks == gt > 0 /\ DelBlocks(threads[gt])
            IN  /\ threads' = Append(threads,
                                 [plugin |-> enabled_plugin,
                                  state |-> IF blocks THEN "created" ELSE "started"])
                /\ fg_pc' = IF blocks THEN "del_wait" ELSE "loop"
                /\ fg_last' = [op |-> "start", exc |-> "none"]
    /\ UNCHANGED regVars
    /\ UNCHANGED <<queue, cancel_req, err_log>>
    /\ UNCHANGED viewVars

\* the rest of start_knitting_process once wait() in __del__ has returned:
\* self.gt.start()
DelWaitReturn ==
    /\ fg_pc = "del_wait"
    /\ threads[gt - 1].state \in Finished
    /\ threads' = [threads EXCEPT ![gt].state = "started"]
    /\ fg_pc' = "loop"
    /\ UNCHANGED regVars
    /\ UNCHANGED <<ui, fg_last, queue, cancel_req, err_log>>
    /\ UNCHANGED viewVars

\* cancel_button.clicked -> cancel_knitting_process()
CancelKnittingProcess ==
    /\ fg_pc = "loop"
    /\ IF enabled_plugin = NoPlugin
       THEN /\ fg_last' = [op |-> "cancel", exc |-> "AttributeError"]
            /\ UNCHANGED cancel_req
       ELSE /\ cancel_req' = cancel_req \cup {enabled_plugin}
            /\ fg_last' = [op |-> "cancel", exc |-> "none"]
    /\ UNCHANGED regVars
    /\ UNCHANGED <<ui, threads, fg_pc, queue, err_log>>
    /\ UNCHANGED viewVars

\* resetUI()
ResetUI ==
    /\ fg_pc = "loop"
    /\ ui' = ResetUi
    /\ UNCHANGED fg_last
    /\ UNCHANGED regVars
    /\ UNCHANGED jobVars
    /\ UNCHANGED viewVars

\* delivery of a queued signalDisplayBlockingPopUp: display_blocking_pop_up
DisplayBlockingPopUp ==
    /\ fg_pc = "loop"
    /\ queue # <<>>
    /\ Head(queue).signal = "signalDisplayBlockingPopUp"
    /\ queue' = Tail(queue)
    /\ UNCHANGED fg_last
    /\ UNCHANGED regVars
    /\ UNCHANGED <<ui, threads, fg_pc, cancel_req, err_log>>
    /\ UNCHANGED viewVars

(* ------------------------------ worker --------------------------------- *)
\* the started thread begins to execute run
WorkerEnterRun(j) ==
    /\ threads[j].state = "started"
    /\ threads' = [threads EXCEPT ![j].state = "running"]
    /\ UNCHANGED regVars
    /\ UNCHANGED <<ui, fg_pc, fg_last, queue, cancel_req, err_log>>
    /\ UNCHANGED viewVars

\* the knit routine emits signalDisplayBlockingPopUp; the connection made in
\* setupBehaviour has the default type, so from the worker thread the call
\* is queued for the foreground and emit returns at once
WorkerEmitBlockingPopUp(j) ==
    /\ threads[j].state = "running"
    /\ Len(queue) < MaxQueue
    /\ queue' = Append(queue, [signal |-> "signalDisplayBlockingPopUp", from |-> j])
    /\ UNCHANGED regVars
    /\ UNCHANGED <<ui, threads, fg_pc, fg_last, cancel_req, err_log>>
    /\ UNCHANGED viewVars

\* a cancel request made to the plugin is seen by its running knit routine
CancelSeen(j) == threads[j].plugin \in cancel_req

\* self.function returns or raises and run ends
WorkerFinish(j, outcome) ==
    /\ threads[j].state = "running"
    /\ LET r == run(outcome, CancelSeen(j))
       IN  /\ threads' = [threads EXCEPT ![j].state = r.state]
           /\ err_log' = IF r.logged THEN err_log \cup {j} ELSE err_log
    /\ UNCHANGED regVars
    /\ UNCHANGED <<ui, fg_pc, fg_last, queue, cancel_req>>
    /\ UNCHANGED viewVars

(* ---------------------- foreground: pattern view ----------------------- *)
\* largest repeat count entered in the dialogs of repeat_image
MaxRepeat == 2
\* largest number of pixels of an image made by repeat
MaxPixels == 4

\* self.refresh_scene() at the end of a step: the scene built from the
\* fields as the handler leaves them
Rendered ==
    refresh_scene(pil_image', start_needle', stop_needle', imageAlignment',
                  var_progress', zoomlevel')

\* load_image_from_string(image_str), called by file_select_dialog with the
\* file picked.  Image.open raises for a file that is no image.  The scene
\* is refreshed and the widgets are enabled before the plugin is told the
\* size, which raises AttributeError when enabled_plugin is None.
LoadImage(file) ==
    /\ fg_pc = "loop"
    /\ UNCHANGED <<start_needle, stop_needle, imageAlignment, var_progress, zoomlevel,
                   notification_label, widget_knitcontrol>>
    /\ IF ImageFiles[file] = NoImage
       THEN /\ view_last' = Went("load", "IOError", FALSE, FALSE)
            /\ UNCHANGED <<pil_image, scene, ui, reported_dimensions>>
       ELSE /\ pil_image' = convert(ImageFiles[file], "RGBA")
            /\ scene' = Rendered
            /\ ui' = [ui EXCEPT !.widget_optionsdock = TRUE, !.menuImage_Actions = TRUE]
            /\ IF enabled_plugin = NoPlugin
               THEN /\ view_last' = Went("load", "AttributeError", TRUE, FALSE)
                    /\ UNCHANGED reported_dimensions
               ELSE /\ view_last' = Went("load", "none", TRUE, FALSE)
                    /\ reported_dimensions' =
                          slotSetImageDimensions(reported_dimensions, enabled_plugin,
                                                 pil_image'.size)
    /\ UNCHANGED regVars
    /\ UNCHANGED jobVars
    /\ UNCHANGED fg_last

\* apply_image_transform(transform_type, *args), called by invert_image,
\* repeat_image, mirror_image, flip_image, rotate_left and rotate_right, or
\* by anyone with another key.  Without an image it returns at once.  The
\* plugin is told the size before the scene is refreshed, so the
\* AttributeError raised when enabled_plugin is None leaves the handler with
\* the image replaced and the scene as it was.
ApplyImageTransform(transform_type, args, raises) ==
    /\ fg_pc = "loop"
    /\ UNCHANGED <<start_needle, stop_needle, imageAlignment, var_progress, zoomlevel,
                   notification_label, ui>>
    /\ IF pil_image = NoImage
       THEN /\ view_last' = Went("transform", "none", FALSE, FALSE)
            /\ UNCHANGED <<pil_image, scene, widget_knitcontrol, reported_dimensions>>
       ELSE /\ pil_image' = try_transform(pil_image, transform_type, args, raises)
            /\ widget_knitcontrol' = FALSE
            /\ LET logged == transform_type \notin TransformKeys \/ raises
               IN  IF enabled_plugin = NoPlugin
                   THEN /\ view_last' = Went("transform", "AttributeError", FALSE, logged)
                        /\ UNCHANGED <<scene, reported_dimensions>>
                   ELSE /\ view_last' = Went("transform", "none", TRUE, logged)
                        /\ reported_dimensions' =
                              slotSetImageDimensions(reported_dimensions, enabled_plugin,
                                                     pil_image'.size)
                        /\ scene' = Rendered
    /\ UNCHANGED regVars
    /\ UNCHANGED jobVars
    /\ UNCHANGED fg_last

\* the calls of apply_image_transform the menu handlers make, the repeat
\* counts being what the two dialogs return (at least 1), and a call with a
\* key that transform_dict does not hold
TransformCalls ==
    {<<"invert", <<>>>>, <<"mirror", <<>>>>, <<"flip", <<>>>>,
     <<"rotate", <<90>>>>, <<"rotate", <<-90>>>>, <<"shear", <<>>>>}
    \cup {<<"repeat", <<v, h>>>> : v \in 1..MaxRepeat, h \in 1..MaxRepeat}

\* a menu handler runs apply_image_transform; an image made by repeat stays
\* within MaxPixels
TransformImage(call, raises) ==
    /\ call[1] = "repeat" =>
          pil_image.size[1] * pil_image.size[2] * call[2][1] * call[2][2] <= MaxPixels
    /\ ApplyImageTransform(call[1], call[2], raises)

\* signalUpdateNeedles -> slotUpdateNeedles(start_needle, stop_needle);
\* refresh_scene raises AttributeError at its first line without an image
SlotUpdateNeedles(start, stop) ==
    /\ fg_pc = "loop"
    /\ UNCHANGED <<pil_image, imageAlignment, var_progress, zoomlevel,
                   notification_label, widget_knitcontrol, reported_dimensions, ui>>
    /\ start_needle' = start
    /\ stop_needle' = stop
    /\ IF pil_image = NoImage
       THEN /\ view_last' = Went("needles", "AttributeError", FALSE, FALSE)
            /\ UNCHANGED scene
       ELSE /\ view_last' = Went("needles", "none", TRUE, FALSE)
            /\ scene' = Rendered
    /\ UNCHANGED regVars
    /\ UNCHANGED jobVars
    /\ UNCHANGED fg_last

\* signalUpdateAlignment -> slotUpdateAlignment(alignment)
SlotUpdateAlignment(alignment) ==
    /\ fg_pc = "loop"
    /\ UNCHANGED <<pil_image, start_needle, stop_needle, var_progress, zoomlevel,
                   notification_label, widget_knitcontrol, reported_dimensions, ui>>
    /\ imageAlignment' = alignment
    /\ IF pil_image = NoImage
       THEN /\ view_last' = Went("alignment", "AttributeError", FALSE, FALSE)
            /\ UNCHANGED scene
       ELSE /\ view_last' = Went("alignment", "none", TRUE, FALSE)
            /\ scene' = Rendered
    /\ UNCHANGED regVars
    /\ UNCHANGED jobVars
    /\ UNCHANGED fg_last

\* signalUpdateProgress -> updateProgress(row, total): the row is stored as
\* it comes, the label is set after the refresh when total is not 0
UpdateProgress(row, total) ==
    /\ fg_pc = "loop"
    /\ UNCHANGED <<pil_image, start_needle, stop_needle, imageAlignment, zoomlevel,
                   widget_knitcontrol, reported_dimensions, ui>>
    /\ var_progress' = row
    /\ IF pil_image = NoImage
       THEN /\ view_last' = Went("progress", "AttributeError", FALSE, FALSE)
            /\ UNCHANGED <<scene, notification_label>>
       ELSE /\ view_last' = Went("progress", "none", TRUE, FALSE)
            /\ scene' = Rendered
            /\ notification_label' = IF total # 0 THEN <<row, total>>
                                     ELSE notification_label
    /\ UNCHANGED regVars
    /\ UNCHANGED jobVars
    /\ UNCHANGED fg_last

\* wheelEvent(event) with event.angleDelta().y() = angleDelta: nothing is
\* done without an image
WheelEvent(angleDelta) ==
    /\ fg_pc = "loop"
    /\ UNCHANGED <<pil_image, start_needle, stop_needle, imageAlignment, var_progress,
                   notification_label, widget_knitcontrol, reported_dimensions, ui>>
    /\ IF pil_image = NoImage
       THEN /\ view_last' = Went("wheel", "none", FALSE, FALSE)
            /\ UNCHANGED <<zoomlevel, scene>>
       ELSE /\ zoomlevel' = wheel_zoom(zoomlevel, angleDelta)
            /\ view_last' = Went("wheel", "none", TRUE, FALSE)
            /\ scene' = Rendered
    /\ UNCHANGED regVars
    /\ UNCHANGED jobVars
    /\ UNCHANGED fg_last

Next ==
    \/ SetEnabledPlugin
    \/ StartKnittingProcess
    \/ DelWaitReturn
    \/ CancelKnittingProcess
    \/ ResetUI
    \/ DisplayBlockingPopUp
    \/ \E j \in 1..Len(threads) : WorkerEnterRun(j)
    \/ \E j \in 1..Len(threads) : WorkerEmitBlockingPopUp(j)
    \/ \E j \in 1..Len(threads), outcome \in KnitOutcomes : WorkerFinish(j, outcome)

Spec == Init /\ [][Next]_vars

\* the plugin registry on its own: enabling and reloading, no knitting
RegNext ==
    \/ SetEnabledPlugin
    \/ ReloadPlugins
    \/ \E failing \in Names : ReloadPluginsActivationRaises(failing)

RegSpec == Init /\ [][RegNext]_vars

\* the scheduling the threads give: a started thread runs, a knit routine
\* ends, wait() returns once the old thread has ended, and the foreground
\* event loop delivers what is queued.  Nothing schedules the handlers that
\* a user or a plugin has to invoke.
Fairness ==
    /\ WF_vars(\E j \in 1..Len(threads) : WorkerEnterRun(j))
    /\ WF_vars(DelWaitReturn)
    /\ WF_vars(DisplayBlockingPopUp)

LiveSpec ==
    /\ Spec
    /\ Fairness
    /\ WF_vars(\E j \in 1..Len(threads), outcome \in KnitOutcomes : WorkerFinish(j, outcome))

\* the same program with a knit routine that never raises: it returns, and
\* it returns as cancelled once its plugin holds a cancel request
CoopNext ==
    \/ SetEnabledPlugin
    \/ StartKnittingProcess
    \/ DelWaitReturn
    \/ CancelKnittingProcess
    \/ ResetUI
    \/ DisplayBlockingPopUp
    \/ \E j \in 1..Len(threads) : WorkerEnterRun(j)
    \/ \E j \in 1..Len(threads) : WorkerEmitBlockingPopUp(j)
    \/ \E j \in 1..Len(threads) : WorkerFinish(j, "return")

CoopSpec ==
    /\ Init
    /\ [][CoopNext]_vars
    /\ Fairness
    /\ WF_vars(\E j \in 1..Len(threads) : WorkerFinish(j, "return"))

\* the knitting threads on their own: the plugin enabled at construction
\* stays enabled and the widgets are not reset
ThreadNext ==
    \/ StartKnittingProcess
    \/ DelWaitReturn
    \/ CancelKnittingProcess
    \/ DisplayBlockingPopUp
    \/ \E j \in 1..Len(threads) : WorkerEnterRun(j)
    \/ \E j \in 1..Len(threads) : WorkerEmitBlockingPopUp(j)
    \/ \E j \in 1..Len(threads), outcome \in KnitOutcomes : WorkerFinish(j, outcome)

ThreadSpec == Init /\ [][ThreadNext]_vars

(* ---------------------------- pattern view ----------------------------- *)
\* what the signals and the wheel deliver in the view specification
NeedlePairs == {<<80, 119>>, <<0, 199>>}
Alignments == {"left", "center", "right", "justify"}
ProgressEvents == {<<0, 0>>, <<1, 1>>, <<2, 1>>, <<-1, 0>>}
AngleDeltas == {-120, 60, 120}

\* the pattern view on its own: one image file (and one that cannot be
\* read), the signals of the plugin delivered as handler calls
ViewNext ==
    \/ \E file \in {"wide", "notes"} : LoadImage(file)
    \/ \E raises \in BOOLEAN : TransformImage(<<"rotate", <<90>>>>, raises)
    \/ \E pair \in NeedlePairs : SlotUpdateNeedles(pair[1], pair[2])
    \/ \E alignment \in Alignments : SlotUpdateAlignment(alignment)
    \/ \E event \in ProgressEvents : UpdateProgress(event[1], event[2])
    \/ \E angleDelta \in AngleDeltas : WheelEvent(angleDelta)

\* construction with a plugins directory that holds at most the AYAB plugin
ViewInit == Init /\ plugin_dir["Dummy"] = "absent"

ViewSpec == ViewInit /\ [][ViewNext]_vars

\* images on their own: loading, every transform, switching the plugin
TransformNext ==
    \/ \E file \in {"dot", "pair", "notes"} : LoadImage(file)
    \/ \E call \in TransformCalls, raises \in BOOLEAN : TransformImage(call, raises)
    \/ SetEnabledPlugin

\* construction with a plugins directory that holds the plugin Dummy, so
\* that there is a plugin to switch to
TransformInit == Init /\ plugin_dir["Dummy"] = "plain"

TransformSpec == TransformInit /\ [][TransformNext]_vars

(* ----------------------- coordinator state ----------------------------- *)
Jobs == 1..Len(threads)

\* a job that has been created and whose run has not ended
Live(j) == threads[j].state \notin Finished

\* a job whose thread has been started and has not ended
ThreadRunning(j) == threads[j].state \in {"started", "running"}

Knitting == \E j \in Jobs : Live(j)

\* The coordinator state the handlers and the threads amount to: Knitting
\* while a job is live; the terminal state of the last job while the widgets
\* are still as start_knitting_process left them; Idle before the first job
\* and once resetUI has run.
CoordState ==
    IF Knitting THEN "Knitting"
    ELSE IF gt > 0 /\ ui.cancel_button
    THEN (CASE threads[gt].state = "completed" -> "Completed"
            [] threads[gt].state = "cancelled" -> "Cancelled"
            [] threads[gt].state = "failed" -> "Failed"
            [] OTHER -> "Crashed")
    ELSE "Idle"

PromptPending(j) ==
    \E i \in 1..Len(queue) :
        queue[i].signal = "signalDisplayBlockingPopUp" /\ queue[i].from = j

(* ------------------------------ claims --------------------------------- *)

\* C1: start_knitting_process invoked from Idle (with a plugin enabled)
\* moves the coordinator to Knitting and launches the enabled plugin's knit
\* on a new worker; invoked while Knitting it fails with InvalidTransition,
\* creates no thread and leaves the existing jobs as they are.
C1_StartContract ==
    [][StartKnittingProcess =>
         /\ (CoordState = "Idle" /\ enabled_plugin # NoPlugin) =>
               /\ CoordState' = "Knitting"
               /\ Len(threads') = Len(threads) + 1
               /\ threads'[gt'].plugin = enabled_plugin
               /\ threads'[gt'].state \in {"started", "running"}
         /\ CoordState = "Knitting" =>
               /\ fg_last'.exc = "InvalidTransition"
               /\ threads' = threads]_vars

\* C2: in every reachable state at most one job is non-terminal and at most
\* one worker thread is running.
C2_SingleJob ==
    /\ Cardinality({j \in Jobs : Live(j)}) <= 1
    /\ Cardinality({j \in Jobs : ThreadRunning(j)}) <= 1

\* C3: while a blocking prompt emitted by a worker waits for the foreground,
\* that worker takes no step: it neither emits again nor ends.
C3_PromptRendezvous ==
    [][\A j \in Jobs :
         PromptPending(j) =>
            ~(\/ WorkerEmitBlockingPopUp(j)
              \/ \E outcome \in KnitOutcomes : WorkerFinish(j, outcome))]_vars

\* C4: cancel_knitting_process invoked while the coordinator is Idle
\* forwards no cancel request to any plugin and leaves the coordinator state
\* as it was.
C4_CancelIdleRejected ==
    [][(CancelKnittingProcess /\ CoordState = "Idle") =>
          /\ cancel_req' = cancel_req
          /\ CoordState' = "Idle"]_vars

\* C5: once cancel_knitting_process has been invoked while a job is live,
\* the handler has not thrown and that job eventually ends as Cancelled
\* (the knit routine being one that returns when it sees a request).
C5_CancelYieldsCancelled ==
    \A j \in 1..MaxJobs :
        (j \in Jobs /\ Live(j) /\ fg_last.op = "cancel")
            ~> (j \in Jobs /\ fg_last.exc = "none" /\ threads[j].state = "cancelled")

\* C6: whenever the coordinator is in a terminal state (the last job has
\* ended as Completed, Cancelled or Failed), it eventually is Idle again.
C6_TerminalResets ==
    (CoordState \in {"Completed", "Cancelled", "Failed"})
        ~> (CoordState = "Idle")

\* C7: when the knit routine raises FysomError, run catches and logs it and
\* the job ends as failed; when it raises anything else, run does not catch
\* it: nothing is logged and the exception leaves the worker.
C7_OnlyFysomAbsorbed ==
    [][\A j \in Jobs :
         /\ WorkerFinish(j, "FysomError") =>
               (threads'[j].state = "failed" /\ j \in err_log')
         /\ WorkerFinish(j, "Exception") =>
               (threads'[j].state = "crashed" /\ j \notin err_log')]_vars

C7_Witness ==
    /\ \E j \in Jobs : threads[j].state = "failed" /\ j \in err_log
    /\ \E j \in Jobs : threads[j].state = "crashed" /\ j \notin err_log

\* C8: whenever set_enabled_plugin replaces an enabled plugin by another
\* plugin, it calls cleanup_ui of the outgoing plugin first and setup_ui of
\* the incoming plugin second, also when cleanup_ui raised.
C8_TeardownBeforeSetup ==
    [][((SetEnabledPlugin \/ ReloadPlugins)
          /\ enabled_plugin # NoPlugin /\ enabled_plugin' # NoPlugin) =>
             /\ Len(hooks') = 2
             /\ hooks'[1].hook = "cleanup_ui" /\ hooks'[1].plugin = enabled_plugin
             /\ hooks'[2].hook = "setup_ui" /\ hooks'[2].plugin = enabled_plugin']_vars

C8_Witness ==
    /\ Len(hooks) = 2
    /\ hooks[1].hook = "cleanup_ui" /\ hooks[1].raised
    /\ hooks[2].hook = "setup_ui" /\ hooks[2].plugin # hooks[1].plugin
    /\ enabled_plugin = hooks[2].plugin

\* what plugins_init leaves for a plugin marked Disabled: it is not
\* activated and it is not the enabled plugin
DisabledLeftAlone(dir, gen, act, enabled) ==
    \A n \in Names :
        dir[n] = "disabled" => (<<gen, n>> \notin act /\ enabled # <<gen, n>>)

\* C9: discovery (plugins_init at construction and on reload) never
\* activates a plugin marked Disabled and never makes it the enabled plugin.
C9_DisabledNeverAuto ==
    /\ DisabledLeftAlone(plugin_dir, pm_gen, activated, enabled_plugin)
    /\ [][ReloadPlugins =>
             DisabledLeftAlone(plugin_dir', pm_gen', activated', enabled_plugin')]_vars

\* C10: at most one plugin info is in the enabled state (setup_ui called,
\* cleanup_ui not called since), and it is the one enabled_plugin refers to.
C10_AtMostOneEnabled ==
    /\ Cardinality(setup_plugins) <= 1
    /\ setup_plugins \subseteq {enabled_plugin}

C10_Witness ==
    /\ Len(hooks) = 2
    /\ hooks[1].plugin # hooks[2].plugin
    /\ setup_plugins = {hooks[2].plugin}
    /\ pm_gen > 1

\* C11: when activating one plugin raises during discovery, that plugin stays
\* inactive, every other discovered plugin that is not marked Disabled is
\* activated all the same, and the default plugin is selected (AYAB becomes
\* the enabled plugin when it is present).
C11_ActivationFailureIsolated ==
    [][\A failing \in Names :
         ReloadPluginsActivationRaises(failing) =>
            /\ <<pm_gen', failing>> \notin activated'
            /\ \A n \in SeqRange(ActivatedNames(plugin_dir', 1)) \ {failing} :
                  <<pm_gen', n>> \in activated'
            /\ enabled_plugin' = getPluginByName(pm_gen', plugin_dir', "AYAB")]_vars

\* C12: a call of apply_image_transform whose transform fails (the transform
\* function raises, or the key is not one of transform_dict) logs the error
\* and leaves pil_image exactly as it was before the call.
C12_FailedTransformKeepsPattern ==
    [][\A call \in TransformCalls, raises \in BOOLEAN :
         (/\ pil_image # NoImage
          /\ (raises \/ call[1] \notin TransformKeys)
          /\ TransformImage(call, raises)) =>
             /\ pil_image' = pil_image
             /\ view_last'.logged]_vars

C12_Witness ==
    /\ view_last.op = "transform"
    /\ view_last.logged
    /\ view_last.exc = "none"
    /\ pil_image # NoImage
    /\ pil_image.size = <<2, 1>>

\* z clamped to the zoom range [1, 5], in units of 1/ZoomUnit
ClampZoom(z) ==
    IF z < 1 * ZoomUnit THEN 1 * ZoomUnit
    ELSE IF z > 5 * ZoomUnit THEN 5 * ZoomUnit
    ELSE z

\* C13 as stated: after every zoom request (wheel event) the stored zoom
\* level is max(1, min(5, z)), z being the previous level plus the wheel
\* step, whether or not a pattern is loaded.
C13_ZoomClampedAlways ==
    [][\A angleDelta \in AngleDeltas :
         WheelEvent(angleDelta) => zoomlevel' = ClampZoom(zoomlevel + angleDelta)]_vars

\* C13 amended: a wheel event received while a pattern is loaded stores
\* max(1, min(5, z)), z being the previous level plus the wheel step; one
\* received while no pattern is loaded leaves the stored level as it is; the
\* stored level, 3 at first, is always within [1, 5].
C13_ZoomClampedWithPattern ==
    /\ [](1 * ZoomUnit <= zoomlevel /\ zoomlevel <= 5 * ZoomUnit)
    /\ [][\A angleDelta \in AngleDeltas :
            WheelEvent(angleDelta) =>
               zoomlevel' = IF pil_image # NoImage
                            THEN ClampZoom(zoomlevel + angleDelta)
                            ELSE zoomlevel]_vars

C13_Witness ==
    /\ view_last.op = "wheel"
    /\ view_last.rendered
    /\ zoomlevel = 1 * ZoomUnit

\* C14: after a render the pattern's left edge x is at start - 100 in mode
\* left, at -w/2 + (start + stop)/2 - 100 in mode center and at
\* stop - 100 - w in mode right (2x is compared, x being a multiple of one
\* half); for start 80, stop 119 and w 40 that is -20, -20.5 and -21.
C14_AlignmentPlacement ==
    view_last.rendered =>
        LET w == pil_image.size[1]
            x2 == scene.pattern_pos2
        IN  /\ imageAlignment = "left" => x2 = 2 * start_needle - 200
            /\ imageAlignment = "center" => x2 + w = start_needle + stop_needle - 200
            /\ imageAlignment = "right" => x2 + 2 * w = 2 * stop_needle - 200
            /\ (start_needle = 80 /\ stop_needle = 119 /\ w = 40) =>
                  /\ imageAlignment = "left" => x2 = -40
                  /\ imageAlignment = "center" => x2 = -41
                  /\ imageAlignment = "right" => x2 = -42

C14_Witness ==
    /\ view_last.rendered
    /\ start_needle = 80 /\ stop_needle = 119 /\ pil_image.size[1] = 40
    /\ imageAlignment = "center"
    /\ scene.pattern_pos2 = -41

\* C15: a repeat of the pattern p with counts v and h gives a pattern of
\* size (p.width * h, p.height * v) in which every tile (i, j), 0 <= i < h,
\* 0 <= j < v, at offset (i * p.width, j * p.height) shows p's pixels (the
\* pixels compared as they are displayed, colour and alpha).
C15_RepeatTilesPattern ==
    [][\A v \in 1..MaxRepeat, h \in 1..MaxRepeat :
         (TransformImage(<<"repeat", <<v, h>>>>, FALSE) /\ pil_image # NoImage) =>
            LET w == pil_image.size[1]
                ht == pil_image.size[2]
            IN  /\ pil_image'.size = <<w * h, ht * v>>
                /\ \A i \in 0..(h - 1), j \in 0..(v - 1), x \in 0..(w - 1), y \in 0..(ht - 1) :
                      convert_pixel(getpixel(pil_image', i * w + x, j * ht + y), "RGBA")
                          = convert_pixel(getpixel(pil_image, x, y), "RGBA")]_vars

\* C16: a render made with an alignment other than left, center and right
\* draws the machine schematic and both needle-limit markers and leaves the
\* pattern layer at the position it had in the previous render.
C16_UnknownAlignmentKeepsPosition ==
    [][(/\ view_last'.rendered
        /\ imageAlignment' \notin {"left", "center", "right"}
        /\ scene # NoScene) =>
           /\ Len(scene'.machine) = 2
           /\ scene'.limits = <<start_needle' - 101, stop_needle' - 100>>
           /\ scene'.pattern_pos2 = scene.pattern_pos2]_vars

\* C17: a step that changes the pattern, the needle range, the alignment or
\* the progress row ends with the scene rendered from the pattern, needle
\* range, alignment, progress and zoom as the step leaves them.
C17_MutationRerenders ==
    [][(<<pil_image', start_needle', stop_needle', imageAlignment', var_progress'>>
           # <<pil_image, start_needle, stop_needle, imageAlignment, var_progress>>) =>
           /\ pil_image' # NoImage
           /\ scene' = refresh_scene(pil_image', start_needle', stop_needle',
                                     imageAlignment', var_progress', zoomlevel')]_vars

\* C18: after every progress event (row, total) the stored progress row is
\* at least 0 and, when total is not 0 (unknown), at most total.
C18_ProgressWithinTotal ==
    [][\A event \in ProgressEvents :
         UpdateProgress(event[1], event[2]) =>
            /\ 0 <= var_progress'
            /\ event[2] # 0 => var_progress' <= event[2]]_vars

\* C19: whenever a pattern is loaded and a plugin is enabled, the size last
\* passed to slotSetImageDimensions of the enabled plugin is the size of
\* the pattern.
C19_PluginKnowsDimensions ==
    (pil_image # NoImage /\ enabled_plugin # NoPlugin) =>
        /\ enabled_plugin \in DOMAIN reported_dimensions
        /\ reported_dimensions[enabled_plugin] = pil_image.size

\* C20: while a job is live (from start to its terminal transition) the
\* enabled plugin is the plugin whose knit routine the job's worker runs, so
\* a cancel request goes to that plugin.
C20_EnabledPluginStable ==
    \A j \in Jobs : Live(j) => threads[j].plugin = enabled_plugin

\* C21: while no pattern is loaded no handler reaches a render that
\* dereferences the missing pattern: a needle range, alignment or progress
\* event and a wheel event end without an exception, and a transform
\* request changes neither the pattern nor the scene.
C21_NoRenderWithoutPattern ==
    [][pil_image = NoImage =>
         /\ \A pair \in NeedlePairs :
               SlotUpdateNeedles(pair[1], pair[2]) => view_last'.exc = "none"
         /\ \A alignment \in Alignments :
               SlotUpdateAlignment(alignment) => view_last'.exc = "none"
         /\ \A event \in ProgressEvents :
               UpdateProgress(event[1], event[2]) => view_last'.exc = "none"
         /\ \A angleDelta \in AngleDeltas :
               WheelEvent(angleDelta) => (view_last'.exc = "none" /\ scene' = scene)
         /\ \A call \in TransformCalls, raises \in BOOLEAN :
               TransformImage(call, raises) =>
                  /\ view_last'.exc = "none"
                  /\ pil_image' = pil_image
                  /\ scene' = scene]_vars

====
